---- MODULE Spec2Model ----
(***************************************************************************)
(* Model of jj-gpc (src/main.rs): one run of `main`, from the parsed       *)
(* command line to process exit.                                           *)
(*                                                                         *)
(* Text is a sequence of one-character strings.  A literal whose inner     *)
(* characters never matter (a subcommand, a flag, the prompt preamble) is  *)
(* a one-element text, Lit("--revision").  An Option<T> is a sequence of   *)
(* zero (None) or one (Some) elements.                                     *)
(***************************************************************************)
EXTENDS Integers, Sequences, FiniteSets, TLC

VARIABLES
    args,         \* Cli: change, from, log_format, prefix, dry_run, model, sampling
    revs,         \* the repository: descriptions of the revisions in from..change
    revset,       \* main: revset
    log_template, \* main: log_template
    outputs,      \* execute: what each spawn returned, <<>> when it could not start
    commits,      \* main: commits.stdout
    request,      \* main: Option<GenerationRequest>
    sent,         \* requests handed to Ollama::generate, in order
    replies,      \* what the backend answered to each request
    response,     \* main: GenerationResponse.response
    branch_name,  \* main: branch_name
    invoked,      \* argument vectors of the `jj` subprocesses spawned, in order
    console,      \* what was written to stdout / stderr, in order
    pc,           \* position of main in the pipeline
    visited,      \* positions entered so far, in order
    exit_code     \* process exit status, NotExited while running

vars == <<args, revs, revset, log_template, outputs, commits, request, sent,
          replies, response, branch_name, invoked, console, pc, visited, exit_code>>

-----------------------------------------------------------------------------
(* Bounds of the model *)

MaxRevs == 2
MaxStatus == 2

-----------------------------------------------------------------------------
(* Text helpers *)

Lit(s) == <<s>>

Quote == "\""
NL == "\n"

RECURSIVE Flatten(_)
Flatten(ss) == IF ss = <<>> THEN <<>> ELSE Head(ss) \o Flatten(Tail(ss))

\* char::is_whitespace, over the characters of the model
IsWhitespace(c) == c \in {" ", NL, "\t"}

RECURSIVE TrimStart(_)
TrimStart(s) ==
    IF s = <<>> THEN <<>>
    ELSE IF IsWhitespace(Head(s)) THEN TrimStart(Tail(s))
    ELSE s

RECURSIVE TrimEnd(_)
TrimEnd(s) ==
    IF s = <<>> THEN <<>>
    ELSE IF IsWhitespace(s[Len(s)]) THEN TrimEnd(SubSeq(s, 1, Len(s) - 1))
    ELSE s

\* str::trim
Trim(s) == TrimEnd(TrimStart(s))

HasWhitespace(s) == \E i \in 1..Len(s) : IsWhitespace(s[i])

SeqsUpTo(S, n) == UNION {[1..k -> S] : k \in 0..n}

-----------------------------------------------------------------------------
(* Input sets *)

\* Descriptions of a revision: empty, a first line that is empty, and a
\* summary line followed by a body line.
Descriptions ==
    { <<>>,
      <<NL, "b", NL>>,
      <<"a", NL, "b", NL>> }

RevLists == SeqsUpTo(Descriptions, MaxRevs)

\* Values a backend may put in the `response` field, before JSON quoting.
Payloads ==
    { <<"a", "-", "b", "-", "a">>,
      <<"a", "b", "-", "a", "-", "b", "-", "a", "-", "b">>,
      <<"a", "-", "b">>,
      <<"a", " ", "b">>,
      <<"a", " ", " ", "b", " ">>,
      <<"A", "-", "b", "-", "a">>,
      <<>> }

\* The raw `response` texts: a JSON string, a JSON string inside whitespace,
\* bare text, and a string that is never closed.
Responses ==
    UNION { { <<Quote>> \o p \o <<Quote>>,
              <<" ">> \o <<Quote>> \o p \o <<Quote>> \o <<NL>>,
              p,
              <<Quote>> \o p } : p \in Payloads }

Prefixes == { <<>>, << <<"p">> >> }

LogFormats == { <<>>, <<"OneLine">>, <<"Full">> }

\* Cli after Cli::parse(), with the defaults of the #[arg] attributes
ArgSets ==
    [ change : { <<"@">> },
      from : { <<"trunk()">> },
      log_format : LogFormats,
      prefix : Prefixes,
      dry_run : BOOLEAN,
      model : { "phi3" },
      temperature : { "2" },
      top_k : { "20" },
      top_p : { "0.7" } ]

\* process::ExitStatus as its code(): <<>> when the child was killed by a signal
ExitStatuses == { <<>> } \cup { <<c>> : c \in 0..MaxStatus }

OutTexts == { <<>>, <<"x", NL>> }

\* What the backend can answer: a transport error, a non-success HTTP
\* response with its body, or a success carrying the `response` text.
Replies ==
    { [ok |-> FALSE, error |-> "transport", response |-> <<>>] }
    \cup { [ok |-> FALSE, error |-> "status", response |-> r] :
             r \in { <<Quote, "a", "-", "b", "-", "a", Quote>> } }
    \cup { [ok |-> TRUE, error |-> "", response |-> r] : r \in Responses }

-----------------------------------------------------------------------------
(* The jj log templates *)

\* the grave accent of the markdown fence, written as a symbolic character
Backtick == "GRAVE"
Fence == <<Backtick, Backtick, Backtick>>
Separator == <<NL, NL, "-", "-", "-", NL, NL>>

RECURSIVE FirstLine(_)
\* jj template method first_line(): the text before the first newline
FirstLine(d) ==
    IF d = <<>> \/ Head(d) = NL THEN <<>>
    ELSE <<Head(d)>> \o FirstLine(Tail(d))

\* a template that emits the first line and a newline, and nothing for an
\* empty description
LOG_ONE_LINE_Bare(d) == IF d # <<>> THEN FirstLine(d) \o <<NL>> ELSE <<>>

\* fence, newline, if(description, description.first_line(), empty), newline,
\* fence, separator
LOG_ONE_LINE(d) ==
    Fence \o <<NL>> \o (IF d # <<>> THEN FirstLine(d) ELSE <<>>)
          \o <<NL>> \o Fence \o Separator

\* fence, newline, if(description, description, empty), fence, separator
LOG_FULL(d) ==
    Fence \o <<NL>> \o (IF d # <<>> THEN d ELSE <<>>) \o Fence \o Separator

Render(template, d) ==
    IF template = "LOG_FULL" THEN LOG_FULL(d) ELSE LOG_ONE_LINE(d)

RECURSIVE JjLog(_, _)
\* stdout of `jj log -T template -r revset --no-graph`: the template, once
\* per revision of the range
JjLog(template, rs) ==
    IF rs = <<>> THEN <<>>
    ELSE Render(template, Head(rs)) \o JjLog(template, Tail(rs))

-----------------------------------------------------------------------------
(* The structured response *)

WordMin == 1
WordMax == 10
RepMin == 2
RepMax == 4

\* [a-z], over the letters of the model
Lower == {"a", "b"}

RECURSIVE SplitHyphen(_)
\* the hyphen-separated fields of s, empty fields included
SplitHyphen(s) ==
    IF \A i \in 1..Len(s) : s[i] # "-" THEN <<s>>
    ELSE LET i == CHOOSE k \in 1..Len(s) :
                      s[k] = "-" /\ \A j \in 1..(k - 1) : s[j] # "-"
         IN <<SubSeq(s, 1, i - 1)>> \o SplitHyphen(SubSeq(s, i + 1, Len(s)))

\* the schema's pattern ^[a-z]{1,10}+(-[a-z]{1,10}){2,4}$ ; the possessive
\* {1,10}+ accepts the same strings as {1,10} here, as a word is followed
\* only by a hyphen or the end
MatchesPattern(s) ==
    LET ws == SplitHyphen(s)
    IN /\ Len(ws) - 1 \in RepMin..RepMax
       /\ \A i \in 1..Len(ws) :
            /\ Len(ws[i]) \in WordMin..WordMax
            /\ \A j \in 1..Len(ws[i]) : ws[i][j] \in Lower

IsJsonWhitespace(c) == c \in {" ", NL, "\t", "\r"}

RECURSIVE JsonSkipStart(_)
JsonSkipStart(s) ==
    IF s = <<>> THEN <<>>
    ELSE IF IsJsonWhitespace(Head(s)) THEN JsonSkipStart(Tail(s))
    ELSE s

RECURSIVE JsonSkipEnd(_)
JsonSkipEnd(s) ==
    IF s = <<>> THEN <<>>
    ELSE IF IsJsonWhitespace(s[Len(s)]) THEN JsonSkipEnd(SubSeq(s, 1, Len(s) - 1))
    ELSE s

\* serde_json::from_str::<Branch>: Branch is a transparent newtype over String
\* with a derived Deserialize, so any JSON string decodes, whatever the
\* schemars pattern says.  <<>> is Err, <<s>> is Ok(Branch(s)).  The model's
\* characters include no backslash, so a string has no escapes to decode.
FromStr(r) ==
    LET t == JsonSkipEnd(JsonSkipStart(r))
    IN IF /\ Len(t) >= 2
          /\ t[1] = Quote
          /\ t[Len(t)] = Quote
          /\ \A i \in 2..(Len(t) - 1) : t[i] \notin {Quote, NL, "\t", "\r"}
       THEN <<SubSeq(t, 2, Len(t) - 1)>>
       ELSE <<>>

\* the prefix joined without its slash
WithPrefix_NoSlash(prefix, branch) ==
    IF prefix # <<>> THEN prefix[1] \o branch ELSE branch

\* args.prefix.map(|prefix| format!("{prefix}/{}", branch)).unwrap_or(branch)
WithPrefix(prefix, branch) ==
    IF prefix # <<>> THEN prefix[1] \o <<"/">> \o branch ELSE branch

-----------------------------------------------------------------------------
(* Commands and console lines *)

LogCommand(template, range) ==
    <<Lit("log"), Lit("-T"), Lit(template), Lit("-r"), range, Lit("--no-graph")>>

CreateCommand(name, change) ==
    <<Lit("bookmark"), Lit("create"), name, Lit("--revision"), change>>

PushCommand(name) ==
    <<Lit("git"), Lit("push"), Lit("--bookmark"), name, Lit("--allow-new")>>

\* println!("[dry run] jj bookmark create {branch_name} --revision {}", args.change)
DryRunCreateLine(name, change) ==
    <<Lit("[dry run]"), Lit("jj"), Lit("bookmark"), Lit("create"), name,
      Lit("--revision"), change>>

\* println!("[dry run] jj git push --bookmark {branch_name}")
DryRunPushLine(name) ==
    <<Lit("[dry run]"), Lit("jj"), Lit("git"), Lit("push"), Lit("--bookmark"), name>>

\* println!("jj bookmark create {branch_name} --revision {}", args.change)
CreateLine(name, change) ==
    <<Lit("jj"), Lit("bookmark"), Lit("create"), name, Lit("--revision"), change>>

\* println!("jj git push --bookmark {branch_name} --allow-new")
PushLine(name) ==
    <<Lit("jj"), Lit("git"), Lit("push"), Lit("--bookmark"), name, Lit("--allow-new")>>

Out(words) == [stream |-> "stdout", text |-> words]
Err(words) == [stream |-> "stderr", text |-> words]

NoCommitsLine == <<Lit("No commits to summarize")>>

\* eprintln!("Error running '{command:?}' ({status}):\nCause: {}", stderr)
ErrorRunning(command, status, stderr) ==
    Err(<<Lit("Error running"), Lit("jj")>> \o command
        \o <<status, Lit("Cause:"), stderr>>)

\* panic!("Could not execute command {command:?}.\nCause: {e}")
CouldNotExecute(command) ==
    Err(<<Lit("Could not execute command"), Lit("jj")>> \o command)

PanicExitCode == 101
NoCommitsExitCode == 1
ParseErrorExitCode == 1
DefaultExitCode == 1

\* an exit status that is never looked at
Success_Unchecked(status) == TRUE

\* status.success()
Success(status) == status = <<0>>

\* every failure reported as exit code 1
ExitCodeOf_AlwaysOne(status) == DefaultExitCode

\* status.code().unwrap_or(1)
ExitCodeOf(status) == IF status = <<>> THEN DefaultExitCode ELSE status[1]


-----------------------------------------------------------------------------
(* The pipeline *)

Running == exit_code = <<>>

Go(p) == pc' = p /\ visited' = Append(visited, p)

\* What a spawned jj can hand back to execute.  A child that exits with 0
\* has written one of `texts`; one that fails may have written nothing.
Outputs(texts) ==
    { o \in [status : ExitStatuses, stdout : {<<>>} \cup texts, stderr : OutTexts] :
        o.status = <<0>> => o.stdout \in texts }

\* execute, command.output() is Err: the unwrap_or_else panics
SpawnFailed(cmd, con, failedPc) ==
    /\ outputs' = Append(outputs, <<>>)
    /\ console' = Append(con, CouldNotExecute(cmd))
    /\ exit_code' = <<PanicExitCode>>
    /\ Go(failedPc)

\* execute, !status.success(): report and process::exit(status.code().unwrap_or(1))
ExecuteFailed(cmd, o, con, failedPc) ==
    /\ outputs' = Append(outputs, <<o>>)
    /\ console' = Append(con, ErrorRunning(cmd, o.status, o.stderr))
    /\ exit_code' = <<ExitCodeOf(o.status)>>
    /\ Go(failedPc)

\* the emptiness test with its sense inverted
NoCommitText_Inverted(stdout) == Trim(stdout) # <<>>

\* commits.stdout.trim().is_empty()
NoCommitText(stdout) == Trim(stdout) = <<>>

\* format!("{PROMPT_START}\n\n{commits}\n\n{PROMPT_END}")
BuildPrompt(text) ==
    <<"PROMPT_START", NL, NL>> \o text \o <<NL, NL, "PROMPT_END">>

\* GenerationRequest::new(model, prompt).format(StructuredJson(Branch)).options(..)
BuildRequest(a, text) ==
    [ model |-> a.model,
      prompt |-> BuildPrompt(text),
      format |-> "StructuredJson(Branch)",
      options |-> [top_k |-> a.top_k, top_p |-> a.top_p,
                   temperature |-> a.temperature] ]

\* a backend error that is not noticed
GenerateOk_Unchecked(reply) == TRUE

\* Ollama::generate returns Ok only for a delivered, successful response
GenerateOk(reply) == reply.ok

\* if args.dry_run { .. return; }
AfterSanitize(dry_run) == IF dry_run THEN "Reporting" ELSE "Publishing"

\* lines 93-99: both streams of `bookmark create` are relayed with println!
RelayCreate(con, o) ==
    LET c1 == IF Trim(o.stdout) # <<>> THEN Append(con, Out(<<o.stdout, Lit(NL)>>))
              ELSE con
    IN IF Trim(o.stderr) # <<>> THEN Append(c1, Out(<<o.stderr, Lit(NL)>>))
       ELSE c1

\* CommandOutput::to_console
ToConsole(con, o) ==
    LET c1 == IF Trim(o.stdout) # <<>> THEN Append(con, Out(<<o.stdout>>))
              ELSE con
    IN IF Trim(o.stderr) # <<>> THEN Append(c1, Err(<<o.stderr>>))
       ELSE c1

Init ==
    /\ args \in ArgSets
    /\ revs \in RevLists
    /\ revset = <<>>
    /\ log_template = ""
    /\ outputs = <<>>
    /\ commits = <<>>
    /\ request = <<>>
    /\ sent = <<>>
    /\ replies = <<>>
    /\ response = <<>>
    /\ branch_name = <<>>
    /\ invoked = <<>>
    /\ console = <<>>
    /\ pc = "Resolving"
    /\ visited = <<"Resolving">>
    /\ exit_code = <<>>

\* lines 18-24: the revset and the log template
Resolve ==
    /\ Running
    /\ pc = "Resolving"
    /\ revset' = args.from \o <<".", ".">> \o args.change
    /\ log_template' = IF args.log_format = <<"Full">> THEN "LOG_FULL"
                       ELSE "LOG_ONE_LINE"
    /\ Go("Extracting")
    /\ UNCHANGED <<args, revs, outputs, commits, request, sent, replies, response,
                   branch_name, invoked, console, exit_code>>

\* lines 26-38: run `jj log`, stop when there is nothing to summarize
Extract ==
    /\ Running
    /\ pc = "Extracting"
    /\ LET cmd == LogCommand(log_template, revset)
       IN /\ invoked' = Append(invoked, cmd)
          /\ \/ /\ SpawnFailed(cmd, console, "ExtractFailed")
                /\ UNCHANGED commits
             \/ \E o \in Outputs({JjLog(log_template, revs)}) :
                   IF ~Success(o.status)
                   THEN /\ ExecuteFailed(cmd, o, console, "ExtractFailed")
                        /\ UNCHANGED commits
                   ELSE /\ outputs' = Append(outputs, <<o>>)
                        /\ commits' = o.stdout
                        /\ IF NoCommitText(o.stdout)
                           THEN /\ console' = Append(console, Err(NoCommitsLine))
                                /\ exit_code' = <<NoCommitsExitCode>>
                                /\ Go("NoCommits")
                           ELSE /\ UNCHANGED <<console, exit_code>>
                                /\ Go("Prompting")
    /\ UNCHANGED <<args, revs, revset, log_template, request, sent, replies,
                   response, branch_name>>

\* lines 40-53: the prompt and the generation request
Prompt ==
    /\ Running
    /\ pc = "Prompting"
    /\ request' = <<BuildRequest(args, commits)>>
    /\ Go("Generating")
    /\ UNCHANGED <<args, revs, revset, log_template, outputs, commits, sent,
                   replies, response, branch_name, invoked, console, exit_code>>

\* lines 55-60: Ollama::generate; an Err (transport error, non-success
\* response) panics
Generate ==
    /\ Running
    /\ pc = "Generating"
    /\ sent' = Append(sent, request[1])
    /\ \E reply \in Replies :
          /\ replies' = Append(replies, reply)
          /\ IF ~GenerateOk(reply)
             THEN /\ console' = Append(console,
                                       Err(<<Lit("panicked"), Lit(reply.error)>>))
                  /\ exit_code' = <<PanicExitCode>>
                  /\ Go("GenerationFailed")
                  /\ UNCHANGED response
             ELSE /\ response' = reply.response
                  /\ Go("Sanitizing")
                  /\ UNCHANGED <<console, exit_code>>
    /\ UNCHANGED <<args, revs, revset, log_template, outputs, commits, request,
                   branch_name, invoked>>

\* lines 62-70: decode the response into a Branch, apply the prefix
Sanitize ==
    /\ Running
    /\ pc = "Sanitizing"
    /\ LET parsed == FromStr(response)
       IN IF parsed = <<>>
          THEN /\ console' = Append(console, Err(<<Lit("serde_json::Error")>>))
               /\ exit_code' = <<ParseErrorExitCode>>
               /\ Go("InvalidName")
               /\ UNCHANGED branch_name
          ELSE /\ branch_name' = WithPrefix(args.prefix, parsed[1])
               /\ Go(AfterSanitize(args.dry_run))
               /\ UNCHANGED <<console, exit_code>>
    /\ UNCHANGED <<args, revs, revset, log_template, outputs, commits, request,
                   sent, replies, response, invoked>>

\* a dry run that prints and, its return missing, goes on to publish
Report_NoReturn ==
    /\ Running
    /\ pc = "Reporting"
    /\ console' = console \o
           << Out(DryRunCreateLine(branch_name, args.change) \o <<Lit(NL)>>),
              Out(DryRunPushLine(branch_name) \o <<Lit(NL)>>) >>
    /\ Go("Publishing")
    /\ UNCHANGED <<args, revs, revset, log_template, outputs, commits, request,
                   sent, replies, response, branch_name, invoked, exit_code>>

\* lines 72-79: dry run, print the two commands and return
Report ==
    /\ Running
    /\ pc = "Reporting"
    /\ console' = console \o
           << Out(DryRunCreateLine(branch_name, args.change) \o <<Lit(NL)>>),
              Out(DryRunPushLine(branch_name) \o <<Lit(NL)>>) >>
    /\ exit_code' = <<0>>
    /\ UNCHANGED <<args, revs, revset, log_template, outputs, commits, request,
                   sent, replies, response, branch_name, invoked, pc, visited>>

\* lines 81-99: `jj bookmark create`
Create ==
    /\ Running
    /\ pc = "Publishing"
    /\ LET cmd == CreateCommand(branch_name, args.change)
           con == Append(console,
                         Out(CreateLine(branch_name, args.change) \o <<Lit(NL)>>))
       IN /\ invoked' = Append(invoked, cmd)
          /\ \/ SpawnFailed(cmd, con, "PublishFailed")
             \/ \E o \in Outputs(OutTexts) :
                   IF ~Success(o.status)
                   THEN ExecuteFailed(cmd, o, con, "PublishFailed")
                   ELSE /\ outputs' = Append(outputs, <<o>>)
                        /\ console' = RelayCreate(con, o)
                        /\ Go("Pushing")
                        /\ UNCHANGED exit_code
    /\ UNCHANGED <<args, revs, revset, log_template, commits, request, sent,
                   replies, response, branch_name>>

\* lines 101-110: `jj git push`, then main returns
Push ==
    /\ Running
    /\ pc = "Pushing"
    /\ LET cmd == PushCommand(branch_name)
           con == Append(console, Out(PushLine(branch_name) \o <<Lit(NL)>>))
       IN /\ invoked' = Append(invoked, cmd)
          /\ \/ SpawnFailed(cmd, con, "PublishFailed")
             \/ \E o \in Outputs(OutTexts) :
                   IF ~Success(o.status)
                   THEN ExecuteFailed(cmd, o, con, "PublishFailed")
                   ELSE /\ outputs' = Append(outputs, <<o>>)
                        /\ console' = ToConsole(con, o)
                        /\ exit_code' = <<0>>
                        /\ Go("Published")
    /\ UNCHANGED <<args, revs, revset, log_template, commits, request, sent,
                   replies, response, branch_name>>

Next ==
    \/ Resolve
    \/ Extract
    \/ Prompt
    \/ Generate
    \/ Sanitize
    \/ Report
    \/ Create
    \/ Push

Spec == Init /\ [][Next]_vars

-----------------------------------------------------------------------------
(* Type correctness *)

Positions ==
    {"Resolving", "Extracting", "Prompting", "Generating", "Sanitizing",
     "Reporting", "Publishing", "Pushing", "ExtractFailed", "NoCommits",
     "GenerationFailed", "InvalidName", "PublishFailed", "Published"}

TypeOK ==
    /\ args \in ArgSets
    /\ revs \in RevLists
    /\ pc \in Positions
    /\ Len(exit_code) <= 1
    /\ Len(request) <= 1
    /\ Len(outputs) = Len(invoked)
    /\ Len(replies) = Len(sent)

-----------------------------------------------------------------------------
(* Vocabulary of the properties *)

Exited == exit_code # <<>>

IsLog(cmd) == cmd[1] = Lit("log")
IsCreate(cmd) == cmd[1] = Lit("bookmark") /\ cmd[2] = Lit("create")
IsPush(cmd) == cmd[1] = Lit("git") /\ cmd[2] = Lit("push")

Created == \E i \in 1..Len(invoked) : IsCreate(invoked[i])
Pushed == \E i \in 1..Len(invoked) : IsPush(invoked[i])

Count(P(_), seq) == Cardinality({i \in 1..Len(seq) : P(seq[i])})

\* the bookmark name a create or push command carries
NameOf(cmd) == IF IsCreate(cmd) THEN cmd[3] ELSE cmd[4]

DryRunLines ==
    {i \in 1..Len(console) : console[i].text[1] = Lit("[dry run]")}

\* the `jj log` child ran to an exit and this is what it returned
LogReturned == Len(outputs) >= 1 /\ outputs[1] # <<>>
LogOutput == outputs[1][1]

Said(stream, words) ==
    \E i \in 1..Len(console) :
        console[i].stream = stream /\ console[i].text = words

NothingGeneratedOrPublished ==
    /\ request = <<>>
    /\ sent = <<>>
    /\ ~Created
    /\ ~Pushed
    /\ DryRunLines = {}

-----------------------------------------------------------------------------
(* C1 *)

\* C1, as stated: whenever the stdout captured from `jj log` is empty or only
\* whitespace, the run prints "No commits to summarize", exits with 1, builds
\* and sends no generation request and invokes neither create nor push.
C1_BlankLogStops ==
    (LogReturned /\ Trim(LogOutput.stdout) = <<>>)
        => /\ Said("stderr", NoCommitsLine)
           /\ exit_code = <<1>>
           /\ NothingGeneratedOrPublished

\* C1, amended: the same, for a `jj log` that exited with status 0.
C1_BlankSuccessfulLogStops ==
    (LogReturned /\ LogOutput.status = <<0>> /\ Trim(LogOutput.stdout) = <<>>)
        => /\ Said("stderr", NoCommitsLine)
           /\ exit_code = <<1>>
           /\ pc = "NoCommits"
           /\ NothingGeneratedOrPublished

C1_Witness ==
    /\ LogReturned
    /\ LogOutput.status = <<0>>
    /\ Trim(LogOutput.stdout) = <<>>
    /\ Exited

-----------------------------------------------------------------------------
(* C2 *)

\* C2: with dry-run set neither create nor push is invoked; without it, a
\* push is invoked only after a create that returned with status 0.
C2_DryRunAndOrder ==
    /\ args.dry_run => (~Created /\ ~Pushed)
    /\ \A i \in 1..Len(invoked) :
          IsPush(invoked[i]) =>
              /\ ~args.dry_run
              /\ \E j \in 1..(i - 1) :
                    /\ IsCreate(invoked[j])
                    /\ outputs[j] # <<>>
                    /\ outputs[j][1].status = <<0>>

C2_Witness ==
    /\ Pushed
    /\ pc = "Published"

-----------------------------------------------------------------------------
(* C3 *)

BackendFailed == \E i \in 1..Len(replies) : ~replies[i].ok

\* C3: when the backend call fails (transport error or non-success response)
\* the process exits with a non-zero status, and neither create nor push is
\* invoked or printed as a dry-run command.
C3_BackendFailureIsFatal ==
    BackendFailed
        => /\ Exited
           /\ exit_code[1] # 0
           /\ ~Created
           /\ ~Pushed
           /\ DryRunLines = {}

C3_Witness ==
    /\ \E i \in 1..Len(replies) : replies[i].error = "status"
    /\ Exited

-----------------------------------------------------------------------------
(* C4 *)

\* C4: the name passed to `bookmark create` and `git push` never contains a
\* whitespace character, whatever text the backend returned.
C4_NoWhitespaceInName ==
    \A i \in 1..Len(invoked) :
        (IsCreate(invoked[i]) \/ IsPush(invoked[i]))
            => ~HasWhitespace(NameOf(invoked[i]))

-----------------------------------------------------------------------------
(* C5 *)

\* C5: a response whose decoded value does not match the branch pattern is
\* fatal; every name that reaches create or push (before prefixing) matches
\* the pattern.
C5_PublishedNameMatchesPattern ==
    (Created \/ Pushed)
        => /\ FromStr(response) # <<>>
           /\ MatchesPattern(FromStr(response)[1])

-----------------------------------------------------------------------------
(* C6 *)

\* p + "/" + n, character by character; n alone without a prefix
Joined(p, n) ==
    IF Len(p) = 0 THEN n
    ELSE [i \in 1..(Len(p[1]) + 1 + Len(n)) |->
            IF i <= Len(p[1]) THEN p[1][i]
            ELSE IF i = Len(p[1]) + 1 THEN "/"
            ELSE n[i - Len(p[1]) - 1]]

\* C6: the name of the create, of the push and of both dry-run lines is
\* prefix + "/" + generated name, or the generated name when there is no
\* prefix.
C6_PublishedNameIsPrefixed ==
    LET n == FromStr(response)
    IN /\ \A i \in 1..Len(invoked) :
             (IsCreate(invoked[i]) \/ IsPush(invoked[i]))
                 => /\ n # <<>>
                    /\ NameOf(invoked[i]) = Joined(args.prefix, n[1])
       /\ \A i \in DryRunLines :
             /\ n # <<>>
             /\ console[i].text[IF console[i].text[3] = Lit("git") THEN 6 ELSE 5]
                    = Joined(args.prefix, n[1])

C6_Witness ==
    /\ args.prefix # <<>>
    /\ Pushed
    /\ NameOf(invoked[3]) = <<"p", "/", "a", "-", "b", "-", "a">>

-----------------------------------------------------------------------------
(* C7 *)

\* C7: when a jj invocation exits non-zero with code c the tool exits with c
\* (1 when there is no code) and nothing further happens: the failed command
\* is the last one invoked, and a failed log leaves no generation request.
C7_SubprocessFailureIsFatal ==
    \A i \in 1..Len(outputs) :
        (outputs[i] # <<>> /\ outputs[i][1].status # <<0>>)
            => /\ exit_code = <<IF outputs[i][1].status = <<>> THEN 1
                                ELSE outputs[i][1].status[1]>>
               /\ Len(invoked) = i
               /\ DryRunLines = {}
               /\ IsLog(invoked[i]) => (request = <<>> /\ sent = <<>>)
               /\ IsCreate(invoked[i]) => ~Pushed

C7_Witness ==
    /\ Len(outputs) = 3
    /\ IsPush(invoked[3])
    /\ outputs[3] # <<>>
    /\ outputs[3][1].status = <<2>>
    /\ exit_code = <<2>>

-----------------------------------------------------------------------------
(* C8 *)

\* C8: a finished dry run has printed, after the [dry run] marker, exactly
\* the two commands normal mode invokes for the same name and revision, and
\* has exited with 0.
C8_DryRunPrintsTheCommands ==
    (args.dry_run /\ Exited /\ pc = "Reporting")
        => /\ exit_code = <<0>>
           /\ Said("stdout",
                   <<Lit("[dry run]"), Lit("jj")>>
                       \o CreateCommand(branch_name, args.change) \o <<Lit(NL)>>)
           /\ Said("stdout",
                   <<Lit("[dry run]"), Lit("jj")>>
                       \o PushCommand(branch_name) \o <<Lit(NL)>>)

-----------------------------------------------------------------------------
(* C9 *)

\* the pipeline's order of states
Edges ==
    { <<"Resolving", "Extracting">>,
      <<"Extracting", "NoCommits">>,
      <<"Extracting", "Prompting">>,
      <<"Prompting", "Generating">>,
      <<"Generating", "GenerationFailed">>,
      <<"Generating", "Sanitizing">>,
      <<"Sanitizing", "InvalidName">>,
      <<"Sanitizing", "Reporting">>,
      <<"Sanitizing", "Publishing">>,
      <<"Publishing", "PublishFailed">>,
      <<"Publishing", "Published">> }

Terminals ==
    {"NoCommits", "GenerationFailed", "InvalidName", "Reporting",
     "PublishFailed", "Published"}

\* the push is the second half of Publishing
Phase(p) == IF p = "Pushing" THEN "Publishing" ELSE p

InOrder(edges) ==
    \A i \in 1..(Len(visited) - 1) :
        \/ <<Phase(visited[i]), Phase(visited[i + 1])>> \in edges
        \/ visited[i] = "Publishing" /\ visited[i + 1] = "Pushing"

OneTerminal(terminals) ==
    /\ Cardinality({i \in 1..Len(visited) : visited[i] \in terminals}) <= 1
    /\ Exited => (pc \in terminals /\ visited[Len(visited)] = pc)
    /\ \A i \in 1..(Len(visited) - 1) : visited[i] \notin terminals

EachAtMostOnce ==
    /\ Count(IsLog, invoked) <= 1
    /\ Count(IsCreate, invoked) <= 1
    /\ Count(IsPush, invoked) <= 1
    /\ Len(sent) <= 1
    /\ \A i, j \in 1..Len(visited) : visited[i] = visited[j] => i = j

-----------------------------------------------------------------------------
(* C10 *)

OneLineLogSucceeded ==
    /\ log_template = "LOG_ONE_LINE"
    /\ LogReturned
    /\ LogOutput.status = <<0>>

\* the text before the first newline of d
Summary(d) ==
    IF \E k \in 1..Len(d) : d[k] = NL
    THEN SubSeq(d, 1, (CHOOSE k \in 1..Len(d) :
                          d[k] = NL /\ \A j \in 1..(k - 1) : d[j] # NL) - 1)
    ELSE d

AllEmpty(rs) == \A i \in 1..Len(rs) : rs[i] = <<>>

\* C10, as stated: with the OneLine template a revision contributes its
\* first line and a newline, or nothing when its description is empty, so a
\* non-empty range of empty descriptions ends the run with NoCommits and no
\* generation request.
C10_EmptyDescriptionsContributeNothing ==
    OneLineLogSucceeded
        => /\ commits = Flatten([i \in 1..Len(revs) |->
                            IF revs[i] # <<>> THEN Summary(revs[i]) \o <<NL>>
                            ELSE <<>>])
           /\ AllEmpty(revs) => (pc = "NoCommits" /\ sent = <<>>)

\* C10, amended: with the OneLine template every revision, its description
\* empty or not, contributes a fenced block (fence, newline, the first line
\* of the description, newline, fence) and the --- separator; the commit
\* text is empty only for a range without revisions, and a non-empty range
\* of empty descriptions goes on to the generation request.
C10_EveryRevisionContributesABlock ==
    OneLineLogSucceeded
        => /\ commits = Flatten([i \in 1..Len(revs) |->
                            <<Backtick, Backtick, Backtick, NL>>
                                \o Summary(revs[i])
                                \o <<NL, Backtick, Backtick, Backtick,
                                     NL, NL, "-", "-", "-", NL, NL>>])
           /\ (pc = "NoCommits") <=> (revs = <<>>)
           /\ (revs # <<>> /\ pc \notin {"Extracting", "Prompting", "Generating"})
                  => Len(sent) = 1

C10_Witness ==
    /\ OneLineLogSucceeded
    /\ revs # <<>>
    /\ AllEmpty(revs)
    /\ Len(sent) = 1

====
